---- MODULE Spec2Model ----
(***************************************************************************)
(* Model of the chess960 repository: the position evaluator                *)
(* (analyze_chess960.py), which writes one record per Chess960 starting    *)
(* position to a JSON results file, and the decision-tree script           *)
(* (create_decision_tree.py), which reads that file, smooths the labels,   *)
(* one-hot encodes the back rank, fits a classification tree and prints it *)
(* as questions.                                                           *)
(***************************************************************************)
EXTENDS Integers, Sequences, FiniteSets, TLC

VARIABLES
    file,            \* the results file chess960_best_moves.json
    allowance,       \* the ALLOWANCE dial of create_decision_tree.py
    min_samples,     \* the MIN_SAMPLES dial
    move_priority,   \* the MOVE_PRIORITY dial
    pc,              \* position of the decision-tree script
    df,              \* the DataFrame returned by load_and_process_data
    X_encoded,       \* the one-hot matrix, one row of booleans per df row
    feature_names,   \* the encoder's column names, in column order
    clf,             \* the fitted DecisionTreeClassifier (its tree)
    out,             \* lines printed to stdout by the run in progress
    exc,             \* uncaught exception that ended the run, or "none"
    run,             \* 1 for the first run of the script, 2 for the repeat
    prev_clf,        \* tree fitted by the first run
    prev_out,        \* stdout of the first run
    epc,             \* position of the evaluator's main()
    results,         \* main's in-memory results dict, in insertion order
    position_number, \* main's loop variable
    result,          \* what analyze_position returned for position_number
    analyzed_count,  \* len(results) as main found it when it started
    runs,            \* number of times the evaluator has been started
    saved            \* history: the records save_results has written out

vars == <<file, allowance, min_samples, move_priority, pc, df, X_encoded,
          feature_names, clf, out, exc, run, prev_clf, prev_out, epc, results,
          position_number, result, analyzed_count, runs, saved>>

script_vars == <<allowance, min_samples, move_priority, pc, df, X_encoded,
                 feature_names, clf, out, exc, run, prev_clf, prev_out>>

eval_vars == <<epc, results, position_number, result, analyzed_count, runs,
               saved>>

(***************************************************************************)
(* Bounds of the model.                                                    *)
(***************************************************************************)
\* Number of Chess960 positions the evaluator walks (960 in the source).
NumPositions == 4
\* Number of times the evaluator is started.
MaxRuns == 2
\* Deepest chain of splits among the trees handed to the renderer alone.
MaxRenderDepth == 12

(***************************************************************************)
(* Configuration of create_decision_tree.py.                               *)
(***************************************************************************)
ALLOWANCE == 25
MIN_SAMPLES == 2
MOVE_PRIORITY == <<"e4", "d4", "c4", "Nf3", "g3", "b3", "f4", "b4", "c3">>
FILE_PATH == "/home/twain/Projects/chess960/chess960_best_moves.json"

\* Values the operator turns the dials to ("THE MEMORIZATION DIAL").
AllowanceDial == {0 - 5, 0, 5, ALLOWANCE}
MinSamplesDial == {0, 1, MIN_SAMPLES}
PriorityDial == {MOVE_PRIORITY, <<"Nf3">>}

\* The settings explored: any allowance with any priority list at the
\* default MIN_SAMPLES, and any MIN_SAMPLES at the other defaults.
DialSettings ==
    { [a |-> a, m |-> MIN_SAMPLES, p |-> p] :
         a \in AllowanceDial, p \in PriorityDial }
    \cup { [a |-> ALLOWANCE, m |-> m, p |-> MOVE_PRIORITY] :
             m \in MinSamplesDial }

(***************************************************************************)
(* Generic helpers.                                                        *)
(***************************************************************************)
Range(s) == {s[i] : i \in DOMAIN s}

RECURSIVE SeqOfSet(_)
\* The elements of a finite set of integers as an ascending sequence.
SeqOfSet(S) ==
    IF S = {} THEN <<>>
    ELSE LET m == CHOOSE x \in S : \A y \in S : x <= y
         IN <<m>> \o SeqOfSet(S \ {m})

(***************************************************************************)
(* chess.Board.from_chess960_pos: the white back rank of position n        *)
(* (Scharnagl numbering), files a..h as indices 1..8.                      *)
(***************************************************************************)
KnightTable == << <<1, 2>>, <<1, 3>>, <<1, 4>>, <<1, 5>>, <<2, 3>>,
                  <<2, 4>>, <<2, 5>>, <<3, 4>>, <<3, 5>>, <<4, 5>> >>

NthFree(rank, k) ==
    CHOOSE i \in 1..8 :
        /\ rank[i] = ""
        /\ Cardinality({j \in 1..i : rank[j] = ""}) = k

Chess960Rank(n) ==
    LET bw == n % 4
        n1 == n \div 4
        bb == n1 % 4
        n2 == n1 \div 4
        q  == n2 % 6
        kn == n2 \div 6
        r0 == [i \in 1..8 |-> ""]
        r1 == [r0 EXCEPT ![bw * 2 + 2] = "B"]
        r2 == [r1 EXCEPT ![bb * 2 + 1] = "B"]
        r3 == [r2 EXCEPT ![NthFree(r2, q + 1)] = "Q"]
        r4 == [r3 EXCEPT ![NthFree(r3, KnightTable[kn + 1][1])] = "N",
                         ![NthFree(r3, KnightTable[kn + 1][2])] = "N"]
        r5 == [r4 EXCEPT ![NthFree(r4, 1)] = "R",
                         ![NthFree(r4, 2)] = "K",
                         ![NthFree(r4, 3)] = "R"]
    IN r5

Lower(c) ==
    CASE c = "B" -> "b" [] c = "Q" -> "q" [] c = "N" -> "n"
      [] c = "R" -> "r" [] c = "K" -> "k" [] OTHER -> c

\* board.fen() of a starting position, as the rows of its board field
\* (rank 8 first, so the white back rank is the last row).
StartFen(n) ==
    LET w == Chess960Rank(n)
        pawnsB == [i \in 1..8 |-> "p"]
        pawnsW == [i \in 1..8 |-> "P"]
        empty == <<"8">>
    IN << [i \in 1..8 |-> Lower(w[i])], pawnsB, empty, empty, empty, empty,
          pawnsW, w >>

(***************************************************************************)
(* Scores as analyze_position stores them in "score_cp": an integer number *)
(* of centipawns, a mate string "M<k>", or null when the engine gave none. *)
(***************************************************************************)
Cp(v) == [kind |-> "cp", v |-> v]
Mate(k) == [kind |-> "mate", v |-> k]
NoScore == [kind |-> "null", v |-> 0]

Cand(san, score) == [move_san |-> san, score_cp |-> score]

\* What engine.analyse may return for a position (MULTI_PV lines at most),
\* already reduced to (SAN of pv[0], score) per line.
EngineOutputs ==
    { << Cand("e4", Cp(30)), Cand("Nf3", Cp(28)) >>,
      << Cand("Nc3", Cp(30)), Cand("Nf3", Cp(10)), Cand("e4", Cp(6)) >>,
      << Cand("b3", Cp(20)) >>,
      << Cand("g3", Mate(3)), Cand("e4", NoScore) >> }

\* engine.analyse returns its lines in MultiPV index order and
\* analyze_position keeps that order.  A search stopped by the time limit
\* reports the lines it has re-searched with their new scores and the
\* others with the scores of the previous iteration, so a later line may
\* carry the higher score.
EngineLines ==
    EngineOutputs \cup { << Cand("c4", Cp(18)), Cand("Nf3", Cp(22)) >> }

\* The record analyze_position returns for position n when top_moves is
\* non-empty.
PositionRecord(n, top_moves) ==
    [ position_number |-> n,
      fen |-> StartFen(n),
      top_moves |-> top_moves,
      best_move_san |-> top_moves[1].move_san,
      best_score |-> top_moves[1].score_cp ]

(***************************************************************************)
(* The results file.                                                       *)
(***************************************************************************)
FileAbsent == [kind |-> "absent", data |-> <<>>]
FileCorrupt == [kind |-> "corrupt", data |-> <<>>]
FileOf(res) == [kind |-> "json", data |-> res]

\* Files the evaluator can leave behind: for any set of positions (a failed
\* analysis stores nothing), one record each, in position order.
RECURSIVE ResultsOver(_)
ResultsOver(keys) ==
    IF keys = <<>> THEN { <<>> }
    ELSE { <<PositionRecord(keys[1], tm)>> \o rest :
              tm \in EngineOutputs, rest \in ResultsOver(Tail(keys)) }

EvaluatorFiles ==
    { FileOf(r) : r \in UNION { ResultsOver(SeqOfSet(K)) :
                                   K \in SUBSET (0..(NumPositions - 1)) } }

(***************************************************************************)
(* load_and_process_data.                                                  *)
(***************************************************************************)
Files == <<"a", "b", "c", "d", "e", "f", "g", "h">>
Squares == [i \in 1..8 |-> Files[i] \o "1"]

\* int(x) succeeds on integers only; int("M3") raises ValueError and
\* int(None) raises TypeError.
IntParses(score) == score.kind = "cp"
IntError(score) == IF score.kind = "mate" THEN "ValueError" ELSE "TypeError"

\* Lines 50-59: the piece on each of a1..h1, from the last row of the FEN.
Features(entry) ==
    LET white_rank == entry.fen[8]
    IN [i \in 1..Len(white_rank) |-> white_rank[i]]

\* ValidMoves with the comparison of line 67 turned around.
ValidMovesReversed(entry, allow) ==
    LET best_score == entry.best_score.v
        ok(m) == m.score_cp.v <= best_score - allow
        kept == SelectSeq(entry.top_moves, ok)
    IN [i \in 1..Len(kept) |-> kept[i].move_san]

\* Lines 62-68: the SANs of the candidates within allowance of best_score.
ValidMoves(entry, allow) ==
    LET best_score == entry.best_score.v
        ok(m) == m.score_cp.v >= best_score - allow
        kept == SelectSeq(entry.top_moves, ok)
    IN [i \in 1..Len(kept) |-> kept[i].move_san]

\* FirstPriority with the loops nested the other way: the first valid move
\* that is on the priority list.
FirstPriorityByCandidate(priority, valid_moves, default) ==
    LET hits == SelectSeq(valid_moves, LAMBDA m : m \in Range(priority))
    IN IF hits = <<>> THEN default ELSE hits[1]

\* Lines 75-78: the first move of the priority list that is valid, if any.
RECURSIVE FirstPriority(_, _, _)
FirstPriority(priority, valid_moves, default) ==
    IF priority = <<>> THEN default
    ELSE IF Head(priority) \in Range(valid_moves) THEN Head(priority)
    ELSE FirstPriority(Tail(priority), valid_moves, default)

\* Lines 70-80.
ChosenMove(entry, allow, priority) ==
    FirstPriority(priority, ValidMoves(entry, allow), entry.best_move_san)

\* The first int() of lines 62 and 67 that raises on this entry, or "none".
EntryError(entry) ==
    IF ~IntParses(entry.best_score) THEN IntError(entry.best_score)
    ELSE LET bad == SelectSeq(entry.top_moves,
                              LAMBDA m : ~IntParses(m.score_cp))
         IN IF bad = <<>> THEN "none" ELSE IntError(bad[1].score_cp)

\* Lines 44-81, one pass of the loop body.
ProcessEntry(entry, allow, priority) ==
    [ features |-> Features(entry),
      target |-> ChosenMove(entry, allow, priority),
      key |-> entry.position_number ]

\* The exception load_and_process_data raises on raw_data, or "none".
LoadError(raw_data) ==
    LET bad == SelectSeq(raw_data, LAMBDA e : EntryError(e) # "none")
    IN IF bad = <<>> THEN "none" ELSE EntryError(bad[1])

BuildDataset(raw_data, allow, priority) ==
    [i \in 1..Len(raw_data) |-> ProcessEntry(raw_data[i], allow, priority)]

(***************************************************************************)
(* Lines 132-137: OneHotEncoder.fit_transform on the feature columns.      *)
(***************************************************************************)
\* Categories are sorted by the encoder; these are the piece letters in
\* that (code point) order.
PieceOrder == <<"B", "K", "N", "Q", "R">>

\* The encoder's columns: for each feature column of X in turn (a1..h1),
\* one column per category seen in it, categories ascending.
RECURSIVE ColumnsFrom(_, _, _)
ColumnsFrom(rows, sq, pi) ==
    IF sq > 8 THEN <<>>
    ELSE IF pi > Len(PieceOrder) THEN ColumnsFrom(rows, sq + 1, 1)
    ELSE (IF \E r \in DOMAIN rows : rows[r].features[sq] = PieceOrder[pi]
          THEN << [sq |-> sq, piece |-> PieceOrder[pi]] >>
          ELSE <<>>) \o ColumnsFrom(rows, sq, pi + 1)

\* EncoderColumns with the categories learnt from the first row alone;
\* handle_unknown='ignore' then encodes any other piece as all zeros.
EncoderColumnsFirstRow(rows) == ColumnsFrom(SubSeq(rows, 1, 1), 1, 1)

EncoderColumns(rows) == ColumnsFrom(rows, 1, 1)

\* X_encoded[r][c]: 1.0 iff row r holds the column's piece on its square.
XEncoded(rows) ==
    LET cols == EncoderColumns(rows)
    IN [r \in DOMAIN rows |->
          [c \in DOMAIN cols |-> rows[r].features[cols[c].sq] = cols[c].piece]]

\* encoder.get_feature_names_out: "<square>_<piece>", kept as its parts.
FeatureName(col) == <<Squares[col.sq], "_", col.piece>>

(***************************************************************************)
(* Lines 140-146: DecisionTreeClassifier(criterion='gini', max_depth=None, *)
(* min_samples_leaf=MIN_SAMPLES, class_weight='balanced').fit(X, y).       *)
(***************************************************************************)
\* Move names in the order the classifier sorts its classes (code points).
SanOrder == <<"Nc3", "Nf3", "b3", "b4", "c3", "c4", "d4", "e4", "f4", "g3">>
SanRank(m) == CHOOSE i \in DOMAIN SanOrder : SanOrder[i] = m

RECURSIVE Product(_, _)
Product(f, S) ==
    IF S = {} THEN 1
    ELSE LET x == CHOOSE y \in S : TRUE IN f[x] * Product(f, S \ {x})

RECURSIVE Sum(_, _)
Sum(f, S) ==
    IF S = {} THEN 0
    ELSE LET x == CHOOSE y \in S : TRUE IN f[x] + Sum(f, S \ {x})

Classes(rows) == {rows[r].target : r \in DOMAIN rows}

CountOf(rows, S, c) == Cardinality({r \in S : rows[r].target = c})

\* class_weight='balanced' gives class c the weight n / (k * count(c)) over
\* the full training set; multiplied by the common factor
\* k * prod(counts) / n this is the integer prod(counts) / count(c).
ClassWeight(rows) ==
    LET cs == Classes(rows)
        cnt == [c \in cs |-> CountOf(rows, DOMAIN rows, c)]
        all == Product(cnt, cs)
    IN [c \in cs |-> all \div cnt[c]]

\* The weighted class totals of the rows S (tree_.value, up to scale), w
\* being the class weights.
NodeValue(rows, w, S) == [c \in DOMAIN w |-> w[c] * CountOf(rows, S, c)]

\* np.argmax of the node value: the first class in sorted order among the
\* heaviest.
Majority(rows, w, S) ==
    LET v == NodeValue(rows, w, S)
        top == {c \in DOMAIN v : \A d \in DOMAIN v : v[c] >= v[d]}
    IN CHOOSE c \in top : \A d \in top : SanRank(c) <= SanRank(d)

Pure(rows, S) == Cardinality({rows[r].target : r \in S}) <= 1

\* Rows sent left (feature <= 0.5) and right (feature > 0.5) by column c.
LeftOf(X, S, c) == {r \in S : ~X[r][c]}
RightOf(X, S, c) == {r \in S : X[r][c]}

\* The Gini criterion's proxy improvement of a split, as a fraction
\* <<numerator, denominator>>:
\*   sum_k left_k^2 / w_left + sum_k right_k^2 / w_right.
Proxy(rows, w, L, R) ==
    LET vl == NodeValue(rows, w, L)
        vr == NodeValue(rows, w, R)
        cs == DOMAIN w
        sql == Sum([c \in cs |-> vl[c] * vl[c]], cs)
        sqr == Sum([c \in cs |-> vr[c] * vr[c]], cs)
        wl == Sum(vl, cs)
        wr == Sum(vr, cs)
    IN <<sql * wr + sqr * wl, wl * wr>>

FracGeq(a, b) == a[1] * b[2] >= b[1] * a[2]

\* ValidSplits with the right-hand side only required to be non-empty.
ValidSplitsLeftOnly(X, S, ncols, msl) ==
    {c \in 1..ncols : /\ Cardinality(LeftOf(X, S, c)) >= msl
                      /\ Cardinality(RightOf(X, S, c)) >= 1}

\* Split positions the splitter accepts: both sides keep min_samples_leaf
\* rows (a column constant on S has none).
ValidSplits(X, S, ncols, msl) ==
    {c \in 1..ncols : /\ Cardinality(LeftOf(X, S, c)) >= msl
                      /\ Cardinality(RightOf(X, S, c)) >= msl}

\* The splitter visits the columns in a random order (random_state is not
\* set) and keeps the first one whose improvement is strictly greater, so
\* any column of maximal improvement can be the one chosen.
BestSplits(rows, w, X, S, ncols, msl) ==
    LET ok == ValidSplits(X, S, ncols, msl)
        px == [c \in ok |-> Proxy(rows, w, LeftOf(X, S, c), RightOf(X, S, c))]
    IN {c \in ok : \A d \in ok : FracGeq(px[c], px[d])}

Leaf(rows, w, S) ==
    [kind |-> "leaf", n |-> Cardinality(S), label |-> Majority(rows, w, S)]

SplitNode(c, n, l, r) ==
    [kind |-> "split", n |-> n, feature |-> c, left |-> l, right |-> r]

\* min_samples_split keeps its default.
MIN_SAMPLES_SPLIT == 2

\* Depth-first tree building on the rows S: every tree the fit can return.
RECURSIVE BuildTrees(_, _, _, _, _, _)
BuildTrees(rows, w, X, S, ncols, msl) ==
    LET n == Cardinality(S)
        best == BestSplits(rows, w, X, S, ncols, msl)
    IN IF \/ n < MIN_SAMPLES_SPLIT
          \/ n < 2 * msl
          \/ Pure(rows, S)
          \/ best = {}
       THEN { Leaf(rows, w, S) }
       ELSE UNION { { SplitNode(c, n, l, r) :
                        l \in BuildTrees(rows, w, X, LeftOf(X, S, c), ncols, msl),
                        r \in BuildTrees(rows, w, X, RightOf(X, S, c), ncols, msl) }
                    : c \in best }

\* clf.fit(X, y) with y the target column of rows.
FitTrees(rows, X, ncols, msl) ==
    BuildTrees(rows, ClassWeight(rows), X, DOMAIN rows, ncols, msl)

\* encoder.get_feature_names_out(X.columns).
FeatureNames(rows) ==
    LET cols == EncoderColumns(rows)
    IN [c \in DOMAIN cols |-> FeatureName(cols[c])]

(***************************************************************************)
(* Line 154: export_text(clf, feature_names).  A raw line is kept as the   *)
(* sequence of its pieces: "|   " per enclosing level, "|---", " ", then   *)
(* the content.                                                            *)
(***************************************************************************)
\* export_text's max_depth keeps its default.
EXPORT_MAX_DEPTH == 10

RECURSIVE Depth(_)
\* _compute_depth: 1 for a leaf.
Depth(t) ==
    IF t.kind = "leaf" THEN 1
    ELSE LET dl == Depth(t.left)
             dr == Depth(t.right)
         IN 1 + (IF dl >= dr THEN dl ELSE dr)

RawIndent(depth) == [i \in 1..(depth - 1) |-> "|   "] \o <<"|---">>

RawLeaf(t, depth) ==
    RawIndent(depth) \o <<" ", "class", ":", " ", t.label>>

RawSplit(name, depth, op) ==
    RawIndent(depth) \o <<" ">> \o name \o
        (IF op = "<=" THEN <<" ", "<=", " ", "0.50">>
                      ELSE <<" ", ">", " ", " ", "0.50">>)

RawTruncated(t, depth) ==
    RawIndent(depth) \o
        <<" ", "truncated", " ", "branch", " ", "of", " ", "depth", " ",
          ToString(Depth(t))>>

RECURSIVE PrintTreeRecurse(_, _, _)
PrintTreeRecurse(t, names, depth) ==
    IF depth <= EXPORT_MAX_DEPTH + 1
    THEN IF t.kind = "split"
         THEN LET name == names[t.feature]
              IN <<RawSplit(name, depth, "<=")>>
                 \o PrintTreeRecurse(t.left, names, depth + 1)
                 \o <<RawSplit(name, depth, ">")>>
                 \o PrintTreeRecurse(t.right, names, depth + 1)
         ELSE <<RawLeaf(t, depth)>>
    ELSE IF Depth(t) = 1 THEN <<RawLeaf(t, depth)>>
         ELSE <<RawTruncated(t, depth)>>

ExportText(t, names) == PrintTreeRecurse(t, names, 1)

(***************************************************************************)
(* clean_tree_output, lines 85-122.                                        *)
(***************************************************************************)
\* The "|-" box-drawing prefix of a rendered line (U+251C U+2500 and a
\* space in the source), written in ASCII.
BranchMark == "+- "

PieceName(piece) ==
    CASE piece = "Q" -> "Queen" [] piece = "K" -> "King"
      [] piece = "R" -> "Rook" [] piece = "B" -> "Bishop"
      [] piece = "N" -> "Knight" [] OTHER -> piece

RECURSIVE Join(_)
Join(toks) == IF toks = <<>> THEN "" ELSE Head(toks) \o Join(Tail(toks))

RECURSIVE Repeat(_, _)
Repeat(str, k) == IF k <= 0 THEN "" ELSE str \o Repeat(str, k - 1)

CountTok(line, tok) == Cardinality({i \in DOMAIN line : line[i] = tok})

\* str.split(sep) on a line of pieces: the runs between occurrences of sep.
RECURSIVE SplitOn(_, _, _)
SplitOn(toks, sep, cur) ==
    IF toks = <<>> THEN <<cur>>
    ELSE IF Head(toks) = sep THEN <<cur>> \o SplitOn(Tail(toks), sep, <<>>)
    ELSE SplitOn(Tail(toks), sep, Append(cur, Head(toks)))

RECURSIVE Strip(_)
Strip(toks) ==
    IF toks # <<>> /\ Head(toks) = " " THEN Strip(Tail(toks))
    ELSE IF toks # <<>> /\ toks[Len(toks)] = " "
         THEN Strip(SubSeq(toks, 1, Len(toks) - 1))
    ELSE toks

\* line.split("--- ")[-1]: what follows the last "---" and its space.
Content(line) ==
    IF \E i \in DOMAIN line : line[i] = "|---" /\ i < Len(line) /\ line[i + 1] = " "
    THEN LET i == CHOOSE k \in DOMAIN line :
                     /\ line[k] = "|---" /\ k < Len(line) /\ line[k + 1] = " "
                     /\ \A j \in DOMAIN line :
                           (line[j] = "|---" /\ j < Len(line) /\ line[j + 1] = " ")
                              => j <= k
         IN SubSeq(line, i + 2, Len(line))
    ELSE line

HasClass(content) ==
    \E i \in DOMAIN content :
        content[i] = "class" /\ i < Len(content) /\ content[i + 1] = ":"

\* Lines 94-120: one raw line to one clean line.
CleanLine(line) ==
    LET indent == Repeat("    ", CountTok(line, "|   "))
                  \o (IF CountTok(line, "|---") > 0 THEN BranchMark ELSE "")
        content == Content(line)
    IN IF HasClass(content)
       THEN LET move == Join(Strip(SplitOn(content, ":", <<>>)[2]))
            IN indent \o "PLAY: " \o move
       ELSE LET parts == SplitOn(content, " ", <<>>)
                feature == parts[1]
                condition == Join(parts[2])
            IN IF CountTok(feature, "_") > 0
               THEN LET sp == SplitOn(feature, "_", <<>>)
                        sq == Join(sp[1])
                        p_name == PieceName(Join(sp[2]))
                    IN IF condition = "<="
                       THEN indent \o "Is " \o p_name \o " on " \o sq \o "? NO"
                       ELSE indent \o "Is " \o p_name \o " on " \o sq \o "? YES"
               ELSE indent \o Join(content)

\* The clean lines, in order (joined by newlines when printed).
clean_tree_output(tree_text) ==
    [i \in 1..Len(tree_text) |-> CleanLine(tree_text[i])]

(***************************************************************************)
(* Lines 157-160: clf.score and clf.get_depth.                             *)
(***************************************************************************)
RECURSIVE PredictSwapped(_, _)
\* Predict descending into the child of the other answer.
PredictSwapped(t, x) ==
    IF t.kind = "leaf" THEN t.label
    ELSE IF x[t.feature] THEN PredictSwapped(t.left, x)
         ELSE PredictSwapped(t.right, x)

RECURSIVE Predict(_, _)
Predict(t, x) ==
    IF t.kind = "leaf" THEN t.label
    ELSE IF x[t.feature] THEN Predict(t.right, x) ELSE Predict(t.left, x)

\* Rows of X whose predicted label is the row's target.
Correct(t, X, rows) ==
    Cardinality({r \in DOMAIN rows : Predict(t, X[r]) = rows[r].target})

\* f"{accuracy:.1f}" of 100 * correct / total: tenths of a percent, rounded
\* to nearest (ties to even).
AccuracyTenths(correct, total) ==
    LET q == (correct * 1000) \div total
        r == (correct * 1000) % total
    IN IF 2 * r > total \/ (2 * r = total /\ q % 2 = 1) THEN q + 1 ELSE q

AccuracyText(correct, total) ==
    LET t == AccuracyTenths(correct, total)
    IN ToString(t \div 10) \o "." \o ToString(t % 10)

\* clf.get_depth(): edges on the longest root-to-leaf path.
GetDepth(t) == Depth(t) - 1

Rule == "============================================================"

HeaderLines(allow, msl) ==
    << "", Rule, "CHESS960 MEMORY TREE",
       "Allowance: " \o ToString(allow) \o "cp (Tolerance)",
       "Min Samples: " \o ToString(msl) \o " (Grouping Strength)",
       Rule, "" >>

SummaryLines(t, X, rows) ==
    << "", Rule,
       "Tree Accuracy: " \o AccuracyText(Correct(t, X, rows), Len(rows)) \o "%",
       "Tree Depth: " \o ToString(GetDepth(t)),
       "Tip: If accuracy is low, DECREASE 'Min Samples' or INCREASE 'Allowance'.",
       Rule >>

NoTree == [kind |-> "none"]

NoResult == [kind |-> "none"]

\* The evaluator is not running.
EvalIdle ==
    /\ epc = "idle"
    /\ results = <<>>
    /\ position_number = 0
    /\ result = NoResult
    /\ analyzed_count = 0
    /\ runs = 0
    /\ saved = {}

Init ==
    /\ file \in EvaluatorFiles \cup {FileAbsent, FileCorrupt}
    /\ \E d \in DialSettings :
          /\ allowance = d.a
          /\ min_samples = d.m
          /\ move_priority = d.p
    /\ pc = "start"
    /\ df = <<>>
    /\ X_encoded = <<>>
    /\ feature_names = <<>>
    /\ clf = NoTree
    /\ out = <<>>
    /\ exc = "none"
    /\ run = 1
    /\ prev_clf = NoTree
    /\ prev_out = <<>>
    /\ EvalIdle

\* Line 129 with lines 34-83: df = load_and_process_data(FILE_PATH, ALLOWANCE).
LoadAndProcess ==
    /\ pc = "start"
    /\ \/ /\ file.kind = "absent"
          /\ out' = Append(out, "Error: File not found at " \o FILE_PATH)
          /\ pc' = "exit"
          /\ UNCHANGED <<df, exc>>
       \/ /\ file.kind = "corrupt"
          /\ pc' = "crashed"
          /\ exc' = "JSONDecodeError"
          /\ UNCHANGED <<df, out>>
       \/ /\ file.kind = "json"
          /\ LoadError(file.data) # "none"
          /\ pc' = "crashed"
          /\ exc' = LoadError(file.data)
          /\ UNCHANGED <<df, out>>
       \/ /\ file.kind = "json"
          /\ LoadError(file.data) = "none"
          /\ df' = BuildDataset(file.data, allowance, move_priority)
          /\ pc' = "loaded"
          /\ UNCHANGED <<out, exc>>
    /\ UNCHANGED <<file, allowance, min_samples, move_priority, X_encoded,
                   feature_names, clf, run, prev_clf, prev_out, eval_vars>>

\* Lines 131-146: drop the target column, encode, fit.  An empty DataFrame
\* has no 'target' column, so df.drop raises KeyError; fit validates its
\* parameters first and rejects min_samples_leaf < 1.
EncodeAndFit ==
    /\ pc = "loaded"
    /\ \/ /\ df = <<>>
          /\ pc' = "crashed"
          /\ exc' = "KeyError"
          /\ UNCHANGED <<X_encoded, feature_names, clf>>
       \/ /\ df # <<>>
          /\ X_encoded' = XEncoded(df)
          /\ feature_names' = FeatureNames(df)
          /\ \/ /\ min_samples < 1
                /\ pc' = "crashed"
                /\ exc' = "InvalidParameterError"
                /\ UNCHANGED clf
             \/ /\ min_samples >= 1
                /\ clf' \in FitTrees(df, XEncoded(df), Len(EncoderColumns(df)),
                                     min_samples)
                /\ pc' = "fitted"
                /\ UNCHANGED exc
    /\ UNCHANGED <<file, allowance, min_samples, move_priority, df, out, run,
                   prev_clf, prev_out, eval_vars>>

\* Lines 148-152: the report's header.
PrintHeader ==
    /\ pc = "fitted"
    /\ out' = out \o HeaderLines(allowance, min_samples)
    /\ pc' = "header"
    /\ UNCHANGED <<file, allowance, min_samples, move_priority, df, X_encoded,
                   feature_names, clf, exc, run, prev_clf, prev_out, eval_vars>>

\* Lines 154-155: print(clean_tree_output(export_text(clf, ...))).
PrintTree ==
    /\ pc = "header"
    /\ out' = out \o clean_tree_output(ExportText(clf, feature_names))
    /\ pc' = "tree"
    /\ UNCHANGED <<file, allowance, min_samples, move_priority, df, X_encoded,
                   feature_names, clf, exc, run, prev_clf, prev_out, eval_vars>>

\* Lines 157-162: accuracy, depth and the tip.
PrintSummary ==
    /\ pc = "tree"
    /\ out' = out \o SummaryLines(clf, X_encoded, df)
    /\ pc' = "exit"
    /\ UNCHANGED <<file, allowance, min_samples, move_priority, df, X_encoded,
                   feature_names, clf, exc, run, prev_clf, prev_out, eval_vars>>

\* The script is run once more on the same file with the same dials.
RunAgain ==
    /\ pc \in {"exit", "crashed"}
    /\ run = 1
    /\ run' = 2
    /\ prev_clf' = clf
    /\ prev_out' = out
    /\ pc' = "start"
    /\ df' = <<>>
    /\ X_encoded' = <<>>
    /\ feature_names' = <<>>
    /\ clf' = NoTree
    /\ out' = <<>>
    /\ exc' = "none"
    /\ UNCHANGED <<file, allowance, min_samples, move_priority, eval_vars>>

Next ==
    \/ LoadAndProcess
    \/ EncodeAndFit
    \/ PrintHeader
    \/ PrintTree
    \/ PrintSummary

Spec == Init /\ [][Next]_vars

\* The script as shipped (every dial at its default), run twice on one file.
InitShipped ==
    /\ Init
    /\ allowance = ALLOWANCE
    /\ min_samples = MIN_SAMPLES
    /\ move_priority = MOVE_PRIORITY

NextTwice ==
    \/ Next
    \/ RunAgain

SpecTwice == InitShipped /\ [][NextTwice]_vars

(***************************************************************************)
(* The renderer on its own: lines 154-155 applied to a fitted tree.  Fits  *)
(* of the full 960-position file grow chains of splits far longer than a   *)
(* file of NumPositions records can, so the trees are drawn from the       *)
(* chains of up to MaxRenderDepth splits.                                  *)
(***************************************************************************)
\* The encoder's columns over all 960 positions: every piece on every
\* square, except that the king never stands on a1 or h1.
RECURSIVE AllColumnsFrom(_, _)
AllColumnsFrom(sq, pi) ==
    IF sq > 8 THEN <<>>
    ELSE IF pi > Len(PieceOrder) THEN AllColumnsFrom(sq + 1, 1)
    ELSE (IF PieceOrder[pi] = "K" /\ sq \in {1, 8}
          THEN <<>>
          ELSE << [sq |-> sq, piece |-> PieceOrder[pi]] >>)
         \o AllColumnsFrom(sq, pi + 1)

AllFeatureNames ==
    LET cols == AllColumnsFrom(1, 1)
    IN [c \in DOMAIN cols |-> FeatureName(cols[c])]

RenderLabels == {"e4", "c4", "Nf3"}

\* A chain of d splits on columns k, k+1, ...: at each split one child is a
\* leaf labelled lb and the chain goes on in the child on `side`, ending in
\* a leaf labelled la.
RECURSIVE Chain(_, _, _, _, _)
Chain(d, k, side, la, lb) ==
    IF d = 0 THEN [kind |-> "leaf", n |-> MIN_SAMPLES, label |-> la]
    ELSE LET rest == Chain(d - 1, k + 1, side, la, lb)
             leaf == [kind |-> "leaf", n |-> MIN_SAMPLES, label |-> lb]
         IN IF side = "left"
            THEN SplitNode(k, rest.n + leaf.n, rest, leaf)
            ELSE SplitNode(k, rest.n + leaf.n, leaf, rest)

RenderTrees ==
    { Chain(d, 1, side, la, lb) :
         d \in 0..MaxRenderDepth, side \in {"left", "right"},
         la \in RenderLabels, lb \in RenderLabels }

InitRender ==
    /\ file = FileAbsent
    /\ allowance = ALLOWANCE
    /\ min_samples = MIN_SAMPLES
    /\ move_priority = MOVE_PRIORITY
    /\ pc = "header"
    /\ df = <<>>
    /\ X_encoded = <<>>
    /\ feature_names = AllFeatureNames
    /\ clf \in RenderTrees
    /\ out = HeaderLines(ALLOWANCE, MIN_SAMPLES)
    /\ exc = "none"
    /\ run = 1
    /\ prev_clf = NoTree
    /\ prev_out = <<>>
    /\ EvalIdle

NextRender == PrintTree

SpecRender == InitRender /\ [][NextRender]_vars

(***************************************************************************)
(* analyze_chess960.py: main().                                            *)
(***************************************************************************)
Keys(res) == {res[i].position_number : i \in DOMAIN res}

\* Lines 88-104: load the saved results, start the engine.  json.load
\* raises on a file that does not hold a complete JSON document; popen_uci
\* may fail, and main then returns.
StartEvaluator ==
    /\ epc = "idle"
    /\ runs < MaxRuns
    /\ runs' = runs + 1
    /\ \/ /\ file.kind = "corrupt"
          /\ UNCHANGED <<epc, results, position_number, analyzed_count>>
       \/ /\ file.kind # "corrupt"
          /\ results' = file.data
          /\ analyzed_count' = Len(file.data)
          /\ position_number' = 0
          /\ \/ epc' = "loop"
             \/ epc' = "idle"
    /\ result' = NoResult
    /\ UNCHANGED <<file, script_vars, saved>>

\* Lines 108-112: a position whose key is in results is skipped.
SkipAnalyzed ==
    /\ epc = "loop"
    /\ position_number < NumPositions
    /\ position_number \in Keys(results)
    /\ position_number' = position_number + 1
    /\ UNCHANGED <<file, script_vars, epc, results, result, analyzed_count, runs,
                   saved>>

\* Lines 115-118 with analyze_position (lines 32-79): the engine's lines
\* give a record, or no line has a pv, or the engine raises; in the last two
\* cases analyze_position returns None.
AnalyzePosition ==
    /\ epc = "loop"
    /\ position_number < NumPositions
    /\ position_number \notin Keys(results)
    /\ \/ \E tm \in EngineLines :
             result' = PositionRecord(position_number, tm)
       \/ result' = NoResult
    /\ epc' = "analysed"
    /\ UNCHANGED <<file, script_vars, results, position_number,
                   analyzed_count, runs, saved>>

\* Lines 120-121 and 27-29: the record is put into results, and
\* save_results opens the file for writing, which empties it.
StoreAndOpen ==
    /\ epc = "analysed"
    /\ result # NoResult
    /\ results' = Append(results, result)
    /\ file' = FileCorrupt
    /\ epc' = "saving"
    /\ UNCHANGED <<script_vars, position_number, result, analyzed_count, runs,
                   saved>>

\* Line 30 and lines 126-139: json.dump writes results and the file is
\* closed; the move is printed and the loop goes on.
DumpAndNext ==
    /\ epc = "saving"
    /\ file' = FileOf(results)
    /\ position_number' = position_number + 1
    /\ result' = NoResult
    /\ epc' = "loop"
    /\ saved' = saved \cup Range(results)
    /\ UNCHANGED <<script_vars, results, analyzed_count, runs>>

\* Lines 140-141: nothing is stored for a failed analysis.
FailedToAnalyze ==
    /\ epc = "analysed"
    /\ result = NoResult
    /\ position_number' = position_number + 1
    /\ epc' = "loop"
    /\ UNCHANGED <<file, script_vars, results, result, analyzed_count, runs,
                   saved>>

\* Lines 143-149: all positions visited; the engine is shut down.
FinishEvaluator ==
    /\ epc = "loop"
    /\ position_number = NumPositions
    /\ epc' = "idle"
    /\ UNCHANGED <<file, script_vars, results, position_number, result,
                   analyzed_count, runs, saved>>

\* The run is interrupted (Ctrl-C, kill) wherever it is; the process and
\* its in-memory results are gone, the file stays as it is.
Interrupt ==
    /\ epc # "idle"
    /\ epc' = "idle"
    /\ result' = NoResult
    /\ UNCHANGED <<file, script_vars, results, position_number,
                   analyzed_count, runs, saved>>

InitEval ==
    /\ file = FileAbsent
    /\ allowance = ALLOWANCE
    /\ min_samples = MIN_SAMPLES
    /\ move_priority = MOVE_PRIORITY
    /\ pc = "start"
    /\ df = <<>>
    /\ X_encoded = <<>>
    /\ feature_names = <<>>
    /\ clf = NoTree
    /\ out = <<>>
    /\ exc = "none"
    /\ run = 1
    /\ prev_clf = NoTree
    /\ prev_out = <<>>
    /\ EvalIdle

NextEval ==
    \/ StartEvaluator
    \/ SkipAnalyzed
    \/ AnalyzePosition
    \/ StoreAndOpen
    \/ DumpAndNext
    \/ FailedToAnalyze
    \/ FinishEvaluator
    \/ Interrupt

SpecEval == InitEval /\ [][NextEval]_vars

(***************************************************************************)
(* Properties of the Dataset Builder.                                      *)
(***************************************************************************)
\* The run has a DataFrame: load_and_process_data returned one.
Loaded == pc \in {"loaded", "fitted", "header", "tree", "exit"} /\ df # <<>>

\* Indices in the priority list of the moves of entry whose score is within
\* allow of the entry's best score.
PriorityWithin(entry, allow, priority) ==
    { k \in DOMAIN priority :
        \E i \in DOMAIN entry.top_moves :
            /\ entry.top_moves[i].move_san = priority[k]
            /\ entry.top_moves[i].score_cp.v >= entry.best_score.v - allow }

\* C1: with allowance >= 0, whenever some priority-list move is among the
\* candidates scoring at least best_score - allowance, the label of the row
\* is the one of them that comes first in the priority list, wherever it
\* ranks among the candidates.
C1_LabelIsFirstPriorityWithin ==
    (Loaded /\ allowance >= 0) =>
        \A i \in DOMAIN df :
            LET within == PriorityWithin(file.data[i], allowance, move_priority)
            IN within # {} =>
                 /\ df[i].target \in Range(move_priority)
                 /\ \A k \in within :
                       \E j \in within : j <= k /\ move_priority[j] = df[i].target

\* C1's case: the label is a priority move that is neither the best move
\* nor the first priority move met in candidate order.
C1_Witness ==
    /\ Loaded
    /\ allowance >= 0
    /\ \E i \in DOMAIN df :
          LET e == file.data[i]
          IN /\ df[i].target = "e4"
             /\ e.best_move_san = "Nc3"
             /\ e.top_moves[2].move_san = "Nf3"
             /\ {"Nf3", "e4"} \subseteq Range(move_priority)
             /\ Cardinality(PriorityWithin(e, allowance, move_priority)) = 2

\* C2: with allowance >= 0, a row none of whose priority-list moves scores
\* at least best_score - allowance is labelled with the record's best move;
\* and the record e4:30, Nf3:28 under the priority list [Nf3] is labelled
\* Nf3 at allowance 5 and e4 at allowance 0.
C2_DefaultIsBestMove ==
    (Loaded /\ allowance >= 0) =>
        \A i \in DOMAIN df :
            LET e == file.data[i]
            IN /\ PriorityWithin(e, allowance, move_priority) = {}
                     => df[i].target = e.best_move_san
               /\ ( /\ e.top_moves = << Cand("e4", Cp(30)), Cand("Nf3", Cp(28)) >>
                    /\ move_priority = <<"Nf3">> )
                     => /\ allowance = 5 => df[i].target = "Nf3"
                        /\ allowance = 0 => df[i].target = "e4"

\* C2's case: the scenario record at allowance 0 with priority list [Nf3],
\* a run that kept the best move e4.
C2_Witness ==
    /\ Loaded
    /\ allowance = 0
    /\ move_priority = <<"Nf3">>
    /\ \E i \in DOMAIN df :
          /\ file.data[i].top_moves = << Cand("e4", Cp(30)), Cand("Nf3", Cp(28)) >>
          /\ df[i].target = "e4"

\* Position numbers of the records of raw_data whose scores all parse.
ParseableKeys(raw_data) ==
    LET good == SelectSeq(raw_data, LAMBDA e : EntryError(e) = "none")
    IN [i \in 1..Len(good) |-> good[i].position_number]

\* C3: a record with no candidates or with a score that is not an integer
\* (a mate score "M3") is left out, every other record still yields its
\* row, and the run is not aborted.
C3_BadRecordsSkipped ==
    (file.kind = "json" /\ pc # "start" /\ allowance >= 0 /\ min_samples >= 1) =>
        /\ exc \notin {"ValueError", "TypeError"}
        /\ [i \in DOMAIN df |-> df[i].key] = ParseableKeys(file.data)

(***************************************************************************)
(* Properties of a whole run of the script.                                *)
(***************************************************************************)
Terminated == pc \in {"exit", "crashed"}

\* The report is complete: header, one or more tree lines, summary.
FullReport ==
    /\ Len(out) > Len(HeaderLines(allowance, min_samples)) + 6
    /\ SubSeq(out, 1, 7) = HeaderLines(allowance, min_samples)
    /\ out[Len(out) - 3] = "Tree Accuracy: "
          \o AccuracyText(Correct(clf, X_encoded, df), Len(df)) \o "%"
    /\ out[Len(out)] = Rule

\* No line of the report has been printed.
NoReport == \A i \in DOMAIN out : out[i] \notin Range(HeaderLines(allowance, min_samples))

\* C4: a run with a negative allowance, a MIN_SAMPLES below 1 or an empty
\* dataset prints no part of the report, and a finished run has printed
\* the whole report or none of it.
C4_InvalidRunPrintsNothing ==
    /\ (allowance < 0 \/ min_samples < 1 \/ (file.kind = "json" /\ file.data = <<>>))
          => NoReport
    /\ Terminated => (NoReport \/ FullReport)

(***************************************************************************)
(* Properties of the encoder and of the fitted tree.                       *)
(***************************************************************************)
Fitted == pc \in {"fitted", "header", "tree", "exit"} /\ clf.kind # "none"

RECURSIVE Leaves(_)
Leaves(t) == IF t.kind = "leaf" THEN {t} ELSE Leaves(t.left) \cup Leaves(t.right)

RECURSIVE Splits(_)
Splits(t) ==
    IF t.kind = "leaf" THEN {} ELSE {t} \cup Splits(t.left) \cup Splits(t.right)

\* Rows of X that reach node t of the tree rooted at root, found by routing
\* every row from the root.
RECURSIVE RowsAt(_, _, _, _)
RowsAt(root, t, X, S) ==
    IF root = t THEN S
    ELSE IF root.kind = "leaf" THEN {}
    ELSE RowsAt(root.left, t, X, {r \in S : ~X[r][root.feature]})
         \cup RowsAt(root.right, t, X, {r \in S : X[r][root.feature]})

ChildrenKeepMinSamples ==
    \A s \in Splits(clf) :
        /\ Cardinality(RowsAt(clf, s.left, X_encoded, DOMAIN X_encoded)) >= min_samples
        /\ Cardinality(RowsAt(clf, s.right, X_encoded, DOMAIN X_encoded)) >= min_samples
        /\ s.left.n >= min_samples
        /\ s.right.n >= min_samples
        /\ s.left.n >= 1
        /\ s.right.n >= 1

\* The claim of C6 as stated: every leaf of every fitted tree holds at
\* least MIN_SAMPLES rows, and so does each child of every split.
C6_EveryLeafKeepsMinSamples ==
    Fitted =>
        /\ \A l \in Leaves(clf) : l.n >= min_samples
        /\ ChildrenKeepMinSamples

\* C6, amended: both children of every split hold at least MIN_SAMPLES
\* rows (so no child is empty), and every leaf holds at least MIN_SAMPLES
\* rows unless the tree is a single leaf fitted on fewer than MIN_SAMPLES
\* rows.
C6_LeavesBelowSplitsKeepMinSamples ==
    Fitted =>
        /\ ChildrenKeepMinSamples
        /\ (clf.kind = "split" \/ Len(df) >= min_samples)
              => \A l \in Leaves(clf) : l.n >= min_samples

\* C6's case: a tree with a split fitted with MIN_SAMPLES = 2.
C6_Witness ==
    /\ Fitted
    /\ min_samples = 2
    /\ clf.kind = "split"
    /\ clf.left.n = 2
    /\ clf.right.n = 2

\* C7: after encoding, each row has exactly one true column among the
\* columns of each of the 8 squares a1..h1.
C7_OneHotPerSquare ==
    Fitted =>
        /\ Len(X_encoded) = Len(df)
        /\ \A r \in DOMAIN X_encoded :
              \A sq \in 1..8 :
                 Cardinality({c \in DOMAIN feature_names :
                                 /\ feature_names[c][1] = Squares[sq]
                                 /\ X_encoded[r][c]}) = 1

\* C7's case: a square with several piece columns, one row true in one of
\* them and false in another.
C7_Witness ==
    /\ Fitted
    /\ \E r \in DOMAIN X_encoded :
          \E c, d \in DOMAIN feature_names :
             /\ c # d
             /\ feature_names[c][1] = feature_names[d][1]
             /\ X_encoded[r][c]
             /\ ~X_encoded[r][d]

(***************************************************************************)
(* Monotonicity of the label smoothing in the allowance.                   *)
(***************************************************************************)
\* Number of records of raw_data whose label under allowance allow is not
\* the record's best move.
Overridden(raw_data, allow, priority) ==
    Cardinality({i \in DOMAIN raw_data :
                    ChosenMove(raw_data[i], allow, priority)
                        # raw_data[i].best_move_san})

\* The same count on the DataFrame of the run.
OverriddenRows ==
    Cardinality({i \in DOMAIN df : df[i].target # file.data[i].best_move_san})

\* C9: for the file and priority list of the run and allowances
\* 0 <= a1 <= a2, one of them the run's, the number of rows whose label is
\* not the best move under a2 is at least the number under a1.
C9_OverridesGrowWithAllowance ==
    (Loaded /\ allowance >= 0) =>
        \A a \in AllowanceDial :
            /\ (0 <= a /\ a <= allowance)
                  => Overridden(file.data, a, move_priority) <= OverriddenRows
            /\ allowance <= a
                  => OverriddenRows <= Overridden(file.data, a, move_priority)

\* C9's case: a run whose allowance overrides more labels than a smaller
\* non-negative allowance does.
C9_Witness ==
    /\ Loaded
    /\ \E a \in AllowanceDial :
          /\ 0 <= a
          /\ a < allowance
          /\ Overridden(file.data, a, move_priority) < OverriddenRows
          /\ Overridden(file.data, a, move_priority) > 0

(***************************************************************************)
(* Determinism of the script (under SpecTwice).                            *)
(***************************************************************************)
\* Every split of tree t is on the first of the columns of maximal
\* improvement for the rows that reach it.
SplitsOnFirstBestColumn(t) ==
    \A s \in Splits(t) :
        LET S == RowsAt(t, s, X_encoded, DOMAIN X_encoded)
            best == BestSplits(df, ClassWeight(df), X_encoded, S,
                               Len(feature_names), min_samples)
        IN \A c \in best : s.feature <= c

\* C5: the second run of the script on the same file with the same dials
\* ends with the tree and the text of the first run, and every split is on
\* the first column, in column order, among those of equal best impurity.
C5_RunsAgree ==
    (run = 2 /\ pc = "exit" /\ clf.kind # "none") =>
        /\ clf = prev_clf
        /\ out = prev_out
        /\ SplitsOnFirstBestColumn(clf)

(***************************************************************************)
(* The rendered tree (under SpecRender).                                   *)
(***************************************************************************)
\* The tree lines of the report: what follows the 7 header lines.
TreeLines == SubSeq(out, Len(HeaderLines(allowance, min_samples)) + 1, Len(out))

\* Indentation of a line at depth k (the root's branches are at depth 0).
IndentAt(k) == Repeat("    ", k) \o BranchMark

Question(name, answer) ==
    "Is " \o PieceName(name[3]) \o " on " \o name[1] \o "? " \o answer

\* The nodes of t with their depths, the root at depth 0.
RECURSIVE NodesAt(_, _)
NodesAt(t, k) ==
    IF t.kind = "leaf" THEN { <<t, k>> }
    ELSE { <<t, k>> } \cup NodesAt(t.left, k + 1) \cup NodesAt(t.right, k + 1)

\* C8: for every split of the tree the rendering has the line
\* "Is <piece> on <square>? NO" and the line "... YES", decoded from the
\* split's column and indented by the split's depth, and every leaf under a
\* branch is rendered "PLAY: <label>" one level deeper than the branch.
C8_SplitsAndLeavesRendered ==
    (pc = "tree" /\ clf.kind # "none") =>
        \A nd \in NodesAt(clf, 0) :
            LET t == nd[1]
                k == nd[2]
            IN IF t.kind = "split"
               THEN /\ IndentAt(k) \o Question(feature_names[t.feature], "NO")
                          \in Range(TreeLines)
                    /\ IndentAt(k) \o Question(feature_names[t.feature], "YES")
                          \in Range(TreeLines)
               ELSE k >= 1 =>
                       IndentAt(k) \o "PLAY: " \o t.label \in Range(TreeLines)

(***************************************************************************)
(* Resuming the evaluator (under SpecEval).                                *)
(***************************************************************************)
\* C10: whenever the evaluator is stopped, the results file holds every
\* record that was saved; a position whose record was saved is not analysed
\* again; and each record is written out before the next position is
\* analysed.
C10_SavedResultsSurviveInterrupts ==
    /\ epc = "idle" =>
          \A r \in saved : file.kind = "json" /\ r \in Range(file.data)
    /\ epc = "analysed" =>
          position_number \notin {r.position_number : r \in saved}
    /\ epc = "loop" => Range(results) \subseteq saved

(***************************************************************************)
(* The reported accuracy.                                                  *)
(***************************************************************************)
\* Rows of the encoded matrix that end in a leaf whose label is the row's
\* target, counted leaf by leaf after routing every row from the root.
RoutedCorrect ==
    Cardinality({r \in DOMAIN X_encoded :
                    \E l \in Leaves(clf) :
                        /\ r \in RowsAt(clf, l, X_encoded, DOMAIN X_encoded)
                        /\ l.label = df[r].target})

\* The text of a percentage given in tenths of a percent.
TenthsText(t) == ToString(t \div 10) \o "." \o ToString(t % 10)

\* The "Tree Accuracy" line of a finished report.
AccuracyLine == out[Len(out) - 3]

\* C11: the accuracy printed with the tree is the number of training rows
\* whose leaf, found by routing the row through the fitted tree, predicts
\* the row's label, divided by the number of training rows (printed as a
\* percentage to the nearest tenth).
C11_AccuracyIsRoutedFraction ==
    (pc = "exit" /\ Fitted) =>
        /\ Len(X_encoded) = Len(df)
        /\ \E t \in 0..1000 :
              /\ AccuracyLine = "Tree Accuracy: " \o TenthsText(t) \o "%"
              /\ 2 * (t * Len(df) - 1000 * RoutedCorrect) <= Len(df)
              /\ 2 * (1000 * RoutedCorrect - t * Len(df)) <= Len(df)

\* C11's case: a finished report on a tree with a split that predicts some
\* rows correctly and some not.
C11_Witness ==
    /\ pc = "exit"
    /\ Fitted
    /\ clf.kind = "split"
    /\ RoutedCorrect > 0
    /\ RoutedCorrect < Len(df)

(***************************************************************************)
(* The whole rendering (under SpecRender).                                 *)
(***************************************************************************)
\* The report of tree t in depth-first pre-order: a split at depth k gives
\* its NO line, the lines of its false child, its YES line and the lines of
\* its true child; a leaf gives its PLAY line.
RECURSIVE PreOrderLines(_, _, _)
PreOrderLines(t, names, k) ==
    IF t.kind = "leaf" THEN << IndentAt(k) \o "PLAY: " \o t.label >>
    ELSE << IndentAt(k) \o Question(names[t.feature], "NO") >>
         \o PreOrderLines(t.left, names, k + 1)
         \o << IndentAt(k) \o Question(names[t.feature], "YES") >>
         \o PreOrderLines(t.right, names, k + 1)

RECURSIVE NumLeaves(_)
NumLeaves(t) ==
    IF t.kind = "leaf" THEN 1 ELSE NumLeaves(t.left) + NumLeaves(t.right)

\* C12: for every tree, whatever its depth, the tree lines of the report
\* are exactly one PLAY line per leaf and one NO and one YES line per
\* split, in depth-first pre-order, with no subtree left out or replaced
\* by other text.
C12_WholeTreeRendered ==
    (pc = "tree" /\ clf.kind # "none") =>
        /\ TreeLines = PreOrderLines(clf, feature_names, 0)
        /\ Len(TreeLines) = NumLeaves(clf) + 2 * (NumLeaves(clf) - 1)

(***************************************************************************)
(* The records the evaluator stores (under SpecEval).                      *)
(***************************************************************************)
\* Score a is at least score b: a mate for White beats any centipawn
\* score, which beats being mated; a quicker mate for White and a slower
\* mate against White are the better ones.  A missing score compares with
\* nothing.
ScoreClass(s) == IF s.kind = "cp" THEN 1 ELSE IF s.v > 0 THEN 2 ELSE 0

ScoreGeq(a, b) ==
    /\ a.kind # "null"
    /\ b.kind # "null"
    /\ \/ ScoreClass(a) > ScoreClass(b)
       \/ /\ ScoreClass(a) = ScoreClass(b)
          /\ IF a.kind = "cp" THEN a.v >= b.v ELSE a.v <= b.v

SortedByScore(top_moves) ==
    \A i \in 1..(Len(top_moves) - 1) :
        ScoreGeq(top_moves[i].score_cp, top_moves[i + 1].score_cp)

\* Every record the run holds, has written out or finds in the file.
StoredRecords ==
    Range(results) \cup saved
        \cup (IF file.kind = "json" THEN Range(file.data) ELSE {})

\* The parts of C13 other than the order of the candidates.
BestIsFirstCandidate ==
    /\ \A r \in StoredRecords :
          /\ r # NoResult
          /\ r.top_moves # <<>>
          /\ r.best_move_san = r.top_moves[1].move_san
          /\ r.best_score = r.top_moves[1].score_cp
    /\ (epc = "analysed" /\ result = NoResult)
          => position_number \notin Keys(results)
    /\ (epc = "loop" /\ file.kind = "json") => file.data = results

\* C13: every stored record has a non-empty candidate list sorted by
\* descending score, its best move and best score are those of the first
\* candidate, and a position whose analysis gave no candidate has no
\* record.
C13_StoredRecordsSorted ==
    /\ BestIsFirstCandidate
    /\ \A r \in StoredRecords : SortedByScore(r.top_moves)

(***************************************************************************)
(* Where a resumed run of the evaluator starts (under SpecEval).           *)
(***************************************************************************)
\* A run is in progress that found k > 0 saved results and announced
\* "Resuming from position k+1".
Resumed == epc # "idle" /\ analyzed_count > 0

\* C14: in a run started with k > 0 saved results every position numbered
\* below k is already saved, and no position numbered below k is analysed,
\* so that the first position the run analyses is the one numbered k, also
\* when earlier runs had positions that failed to analyse.
C14_ResumesAtSavedCount ==
    Resumed =>
        /\ \A n \in 0..(analyzed_count - 1) : n \in Keys(results)
        /\ epc \in {"analysed", "saving"} => position_number >= analyzed_count

====
